---- MODULE Spec2Model ----
(***************************************************************************)
(* Model of the PredictDemand component                                    *)
(* (src/lifeflight-dashboard-frontend/src/components/PredictDemand.jsx):   *)
(* its React state, the handlers of its controls, and fetchPrediction with *)
(* the HTTP exchange it drives.                                            *)
(*                                                                         *)
(* Granularity.  JavaScript runs each handler and each promise             *)
(* continuation to completion, and React 18 (src/README.md:40) batches the *)
(* state updates of one such run into one render.  So one action is one    *)
(* run: a control's handler, the click handler up to its first await, or   *)
(* the continuation of fetchPrediction after an await settles.             *)
(*                                                                         *)
(* Numbers.  The numeric controls hold decimal fractions; the model keeps  *)
(* them in hundredths (0.05 is 5, 10.0 is 1000, 0.95 is 95), exact for     *)
(* every typed text with at most two fractional digits.                    *)
(***************************************************************************)
EXTENDS Integers, Sequences, FiniteSets, TLC

(***************************************************************************)
(* Bounds of the model.                                                    *)
(***************************************************************************)
\* how many of the AVAILABLE_EXTRA_VARS checkboxes the user toggles
NumToggled == 2
\* how many times Start Prediction is clicked
MaxClicks == 2
\* how many control edits (toggles, selections, typed texts) the user makes
MaxEdits == 3
\* how many dates the lists given to the tick functions hold at most
MaxTickDates == 3

(***************************************************************************)
(* JavaScript values.                                                      *)
(***************************************************************************)
Null == [t |-> "null"]
Undefined == [t |-> "undefined"]
Str(s) == [t |-> "string", v |-> s]
Obj(f) == [t |-> "object", v |-> f]
Arr(seq) == [t |-> "array", v |-> seq]
NaN == [nan |-> TRUE, val |-> 0]
Num(v) == [nan |-> FALSE, val |-> v]

\* x.f of a JSON object x: undefined when x has no own field f
Get(x, f) == IF f \in DOMAIN x.v THEN x.v[f] ELSE Undefined

\* ToBoolean of the values the component tests with || and &&
Truthy(x) ==
    CASE x.t = "null" -> FALSE
      [] x.t = "undefined" -> FALSE
      [] x.t = "string" -> x.v # ""
      [] OTHER -> TRUE

\* ToBoolean of a number: NaN, +0 and -0 are falsy
TruthyNum(n) == ~n.nan /\ n.val # 0

(***************************************************************************)
(* parseFloat (StrDecimalLiteral without exponent), on a text given as a   *)
(* sequence of one-character strings; the value is in hundredths.          *)
(***************************************************************************)
DigitChars == <<"0", "1", "2", "3", "4", "5", "6", "7", "8", "9">>
Digits == {DigitChars[i] : i \in 1..10}
DigitVal(c) == (CHOOSE i \in 1..10 : DigitChars[i] = c) - 1

RECURSIVE DigitsPrefixLen(_)
DigitsPrefixLen(s) ==
    IF s = <<>> \/ Head(s) \notin Digits THEN 0
    ELSE 1 + DigitsPrefixLen(Tail(s))

RECURSIVE TrimStart(_)
TrimStart(s) ==
    IF s # <<>> /\ Head(s) = " " THEN TrimStart(Tail(s)) ELSE s

RECURSIVE IntOf(_)
IntOf(ds) ==
    IF ds = <<>> THEN 0
    ELSE 10 * IntOf(SubSeq(ds, 1, Len(ds) - 1)) + DigitVal(ds[Len(ds)])

\* the first two fractional digits, in hundredths
FracOf(ds) ==
    (IF Len(ds) >= 1 THEN 10 * DigitVal(ds[1]) ELSE 0)
    + (IF Len(ds) >= 2 THEN DigitVal(ds[2]) ELSE 0)

parseFloat(text) ==
    LET t == TrimStart(text)
        signed == t # <<>> /\ Head(t) \in {"+", "-"}
        neg == t # <<>> /\ Head(t) = "-"
        u == IF signed THEN Tail(t) ELSE t
        n == DigitsPrefixLen(u)
        rest == SubSeq(u, n + 1, Len(u))
        hasDot == rest # <<>> /\ Head(rest) = "."
        fr == IF hasDot
              THEN SubSeq(Tail(rest), 1, DigitsPrefixLen(Tail(rest)))
              ELSE <<>>
    IN  IF n = 0 /\ fr = <<>> THEN NaN
        ELSE Num((IF neg THEN -1 ELSE 1)
                 * (100 * IntOf(SubSeq(u, 1, n)) + FracOf(fr)))

(***************************************************************************)
(* The program's constants and the values its controls offer.              *)
(***************************************************************************)
AVAILABLE_EXTRA_VARS ==
    << "age_60_69_ratio", "total_population", "age_60_69",
       "age_70_79", "age_80_84", "age_85_plus" >>

\* mutant: the Growth select offers a third value
GrowthOptionsWithFlat == {"linear", "logistic", "flat"}

\* the <MenuItem value=...> of the Growth and Seasonality Mode selects
GrowthOptions == {"linear", "logistic"}
SeasonalityModeOptions == {"additive", "multiplicative"}

\* useState defaults and || fallbacks of the prior-scale fields, and the
\* literal interval_width of the request (hundredths)
DefaultChangepointPriorScale == 5
DefaultSeasonalityPriorScale == 1000
DefaultRegressorPriorScale == 5
IntervalWidthLiteral == 95

(***************************************************************************)
(* Inputs of the user.                                                     *)
(***************************************************************************)
\* the checkboxes the user toggles
ToggledVars == {AVAILABLE_EXTRA_VARS[i] : i \in 1..NumToggled}

\* e.target.value of a prior-scale field: empty, zero, a negative number,
\* a fraction, not a number
TypedTexts ==
    { <<>>, <<"0">>, <<"-", "1">>, <<"0", ".", "2">>, <<"a", "b">> }

VARIABLES
    selectedExtraVars,      \* useState([]): sequence of regressor names
    growth,                 \* useState('linear')
    yearlySeasonality,      \* useState(true)
    seasonalityMode,        \* useState('additive')
    changepointPriorScale,  \* useState(0.05)
    seasonalityPriorScale,  \* useState(10.0)
    regressorPriorScale,    \* useState(0.05)
    loading,                \* useState(false)
    error,                  \* useState(null)
    result,                 \* useState(null)
    pc,                     \* where fetchPrediction stands
    request,                \* the request being exchanged, or NoRequest
    response,               \* how the HTTP exchange has settled so far
    clicks,                 \* clicks of Start Prediction so far
    requestsSent,           \* calls of fetch() so far
    edits,                  \* control edits so far
    tabValue                \* useState(0): index of the selected tab

controls == << selectedExtraVars, growth, yearlySeasonality, seasonalityMode,
               changepointPriorScale, seasonalityPriorScale,
               regressorPriorScale >>
fetchState == << loading, error, result, pc, request, response,
                 clicks, requestsSent >>
vars == << controls, fetchState, edits, tabValue >>

NoRequest == [sent |-> FALSE]
\* the body of a response before response.json() has settled
Unread == [t |-> "unread"]
NoResponse == [kind |-> "none", status |-> 0, body |-> Unread, id |-> 0]

Init ==
    /\ selectedExtraVars = <<>>
    /\ growth = "linear"
    /\ yearlySeasonality = TRUE
    /\ seasonalityMode = "additive"
    /\ changepointPriorScale = Num(DefaultChangepointPriorScale)
    /\ seasonalityPriorScale = Num(DefaultSeasonalityPriorScale)
    /\ regressorPriorScale = Num(DefaultRegressorPriorScale)
    /\ loading = FALSE
    /\ error = Null
    /\ result = Null
    /\ pc = "idle"
    /\ request = NoRequest
    /\ response = NoResponse
    /\ clicks = 0
    /\ requestsSent = 0
    /\ edits = 0
    /\ tabValue = 0

(***************************************************************************)
(* The result view: what the component renders from result and tabValue.   *)
(***************************************************************************)
\* {result && (...)}
resultDisplayed == Truthy(result)

\* reading a property of undefined or null throws a TypeError
isNullish(x) == "t" \in DOMAIN x /\ x.t \in {"undefined", "null"}

\* ToBoolean of a field that holds a number or is missing
truthyValue(x) == IF "t" \in DOMAIN x THEN Truthy(x) ELSE TruthyNum(x)

\* x * 100, with ToNumber(undefined) = NaN and ToNumber(null) = 0
times100(x) ==
    IF "t" \in DOMAIN x
    THEN (IF x.t = "null" THEN Num(0) ELSE NaN)
    ELSE (IF x.nan THEN NaN ELSE Num(x.val * 100))

\* n.toFixed(2) and n.toFixed(1) of a number n >= 0 kept in hundredths
toFixed2(n) ==
    IF n.nan THEN "NaN"
    ELSE ToString(n.val \div 100) \o "."
         \o ToString((n.val % 100) \div 10) \o ToString(n.val % 10)
toFixed1(n) ==
    IF n.nan THEN "NaN"
    ELSE LET tenths == (n.val + 5) \div 10
         IN  ToString(tenths \div 10) \o "." \o ToString(tenths % 10)

cvMetricsOf(r) == Get(r, "cv_metrics")
componentsOf(r) == Get(r, "components")

\* line 555: (result.cv_metrics.mape * 100).toFixed(2) + '%'
mapeTile(r) == toFixed2(times100(Get(cvMetricsOf(r), "mape"))) \o "%"
\* lines 565 and 575: result.cv_metrics.mae.toFixed(2), ...rmse.toFixed(2)
maeTile(r) == toFixed2(Get(cvMetricsOf(r), "mae"))
rmseTile(r) == toFixed2(Get(cvMetricsOf(r), "rmse"))

\* line 585: coverage ? (coverage * 100).toFixed(1) + '%' : 'N/A'
coverageTile(r) ==
    LET c == Get(cvMetricsOf(r), "coverage")
    IN  IF truthyValue(c) THEN toFixed1(times100(c)) \o "%" ELSE "N/A"

\* whether rendering the Cross-Validation Metrics panel throws
metricsPanelThrows(r) ==
    \/ isNullish(cvMetricsOf(r))
    \/ isNullish(Get(cvMetricsOf(r), "mae"))
    \/ isNullish(Get(cvMetricsOf(r), "rmse"))

\* whether rendering the displayed result throws: the metrics panel, the
\* reads of result.components.*, the maps over forecast_data
viewThrows(r) ==
    \/ metricsPanelThrows(r)
    \/ isNullish(componentsOf(r))
    \/ isNullish(Get(r, "forecast_data"))

\* a render that throws takes the component off the page
mounted == ~(resultDisplayed /\ viewThrows(result))

\* mutant: the Extra Regressors tab is always offered
extraRegressorsTabAlways(r) == TRUE

\* line 611: {result.components.extra_regressors && <Tab .../>}
extraRegressorsTabOffered(r) ==
    Truthy(Get(componentsOf(r), "extra_regressors"))

\* the indices of the <Tab>s rendered for r
offeredTabs(r) == IF extraRegressorsTabOffered(r) THEN 0..3 ELSE 0..2

\* whether one of the four tab panels is rendered (lines 615, 696, 746, 796)
panelRendered(tab, r) ==
    \/ tab = 0
    \/ tab = 1 /\ Truthy(Get(componentsOf(r), "trend"))
    \/ tab = 2 /\ Truthy(Get(componentsOf(r), "yearly"))
    \/ tab = 3 /\ Truthy(Get(componentsOf(r), "extra_regressors"))

\* line 801: one chart per entry of components.extra_regressors, by varName
extraRegressorCharts(r) ==
    LET er == Get(componentsOf(r), "extra_regressors")
    IN  [varName \in DOMAIN er.v |->
            [id |-> varName,
             data |-> [i \in 1..Len(er.v[varName].v) |->
                          [x |-> er.v[varName].v[i].date,
                           y |-> er.v[varName].v[i].value]]]]

\* mutant: the Predicted series is drawn newest first
prepareForecastChartDataReversed(r) ==
    IF ~Truthy(r) THEN <<>>
    ELSE LET h == Get(r, "historical_actual").v
             f == Get(r, "forecast_data").v
         IN  << [id |-> "Actual",
                 data |-> [i \in 1..Len(h) |->
                              [x |-> h[i].date, y |-> h[i].actual]]],
                [id |-> "Predicted",
                 data |-> [i \in 1..Len(f) |->
                              [x |-> f[Len(f) + 1 - i].date,
                               y |-> f[Len(f) + 1 - i].predicted]]] >>

\* prepareForecastChartData: the Actual and the Predicted series
prepareForecastChartData(r) ==
    IF ~Truthy(r) THEN <<>>
    ELSE LET h == Get(r, "historical_actual").v
             f == Get(r, "forecast_data").v
         IN  << [id |-> "Actual",
                 data |-> [i \in 1..Len(h) |->
                              [x |-> h[i].date, y |-> h[i].actual]]],
                [id |-> "Predicted",
                 data |-> [i \in 1..Len(f) |->
                              [x |-> f[i].date, y |-> f[i].predicted]]] >>

\* mutant: the two edges of the band are taken from the wrong fields
ciDataSwapped(r) ==
    LET f == Get(r, "forecast_data").v
    IN  [upper |-> [i \in 1..Len(f) |-> [x |-> f[i].date, y |-> f[i].lower]],
         lower |-> [i \in 1..Len(f) |-> [x |-> f[i].date, y |-> f[i].upper]]]

\* ciData: the upper and lower edge of the confidence band (result given)
ciData(r) ==
    LET f == Get(r, "forecast_data").v
    IN  [upper |-> [i \in 1..Len(f) |-> [x |-> f[i].date, y |-> f[i].upper]],
         lower |-> [i \in 1..Len(f) |-> [x |-> f[i].date, y |-> f[i].lower]]]

(***************************************************************************)
(* The x-axis ticks.  A date of the model is <<year, month>>; on the wire  *)
(* and in the component it is the string "YYYY-MM-01", whose characters    *)
(* dateText gives, and the tick functions work on these characters.        *)
(***************************************************************************)
RECURSIVE padStart(_, _)
\* the decimal digits of n, padded with zeros to at least width characters
padStart(n, width) ==
    IF n < 10 /\ width <= 1 THEN <<DigitChars[n + 1]>>
    ELSE padStart(n \div 10, width - 1) \o <<DigitChars[(n % 10) + 1]>>

dateText(d) ==
    padStart(d[1], 4) \o <<"-">> \o padStart(d[2], 2) \o <<"-", "0", "1">>

\* date.split('-')[0]: the text before the first '-', the whole text if none
splitFirst(text) ==
    LET dashes == {i \in 1..Len(text) : text[i] = "-"}
    IN  IF dashes = {} THEN text
        ELSE SubSeq(text, 1, (CHOOSE i \in dashes : \A j \in dashes : i <= j) - 1)

\* date.startsWith(year)
startsWith(text, prefix) ==
    /\ Len(prefix) <= Len(text)
    /\ SubSeq(text, 1, Len(prefix)) = prefix

\* [...new Set(arr)]: the distinct values of arr, each at its first place
RECURSIVE uniqueInOrder(_)
uniqueInOrder(arr) ==
    IF arr = <<>> THEN <<>>
    ELSE LET rest == uniqueInOrder(SubSeq(arr, 1, Len(arr) - 1))
             last == arr[Len(arr)]
         IN  IF \E i \in 1..(Len(arr) - 1) : arr[i] = last THEN rest
             ELSE Append(rest, last)

\* the UTF-16 code unit of a character of a date: '-' is below the digits
charCode(c) == IF c = "-" THEN 45 ELSE 48 + DigitVal(c)

RECURSIVE textBefore(_, _)
\* a < b as strings: by code units, a proper prefix first
textBefore(a, b) ==
    IF b = <<>> THEN FALSE
    ELSE IF a = <<>> THEN TRUE
    ELSE IF Head(a) = Head(b) THEN textBefore(Tail(a), Tail(b))
    ELSE charCode(Head(a)) < charCode(Head(b))

RECURSIVE insertSorted(_, _)
insertSorted(sorted, text) ==
    IF sorted = <<>> THEN <<text>>
    ELSE IF textBefore(text, Head(sorted))
         THEN <<text>> \o sorted
         ELSE <<Head(sorted)>> \o insertSorted(Tail(sorted), text)

RECURSIVE sortTexts(_)
\* arr.sort(): ascending as strings
sortTexts(arr) ==
    IF arr = <<>> THEN <<>>
    ELSE insertSorted(sortTexts(SubSeq(arr, 1, Len(arr) - 1)), arr[Len(arr)])

\* mutant: the tick of a year is its last date
yearTicksOfLast(allDates) ==
    LET years == uniqueInOrder([i \in 1..Len(allDates) |->
                                   splitFirst(allDates[i])])
        lastMonth(year) ==
            LET found == {i \in 1..Len(allDates) :
                             startsWith(allDates[i], year)}
            IN  IF found = {} THEN year \o <<"-", "0", "1", "-", "0", "1">>
                ELSE allDates[CHOOSE i \in found : \A j \in found : j <= i]
    IN  sortTexts([k \in 1..Len(years) |-> lastMonth(years[k])])

\* lines 103-109 and 117-122: from the dates of a chart to one tick a year
yearTicksOf(allDates) ==
    LET uniqueYears == uniqueInOrder([i \in 1..Len(allDates) |->
                                         splitFirst(allDates[i])])
        firstMonth(year) ==
            LET found == {i \in 1..Len(allDates) :
                             startsWith(allDates[i], year)}
            IN  IF found = {} THEN year \o <<"-", "0", "1", "-", "0", "1">>
                ELSE allDates[CHOOSE i \in found : \A j \in found : i <= j]
    IN  sortTexts([k \in 1..Len(uniqueYears) |-> firstMonth(uniqueYears[k])])

RECURSIVE flatMapDates(_)
\* data.flatMap(series => series.data.map(d => d.x))
flatMapDates(data) ==
    IF data = <<>> THEN <<>>
    ELSE LET series == Head(data).data
         IN  [i \in 1..Len(series) |-> dateText(series[i].x)]
                 \o flatMapDates(Tail(data))

\* getYearTicks(data), with data = prepareForecastChartData()
getYearTicks(data) ==
    IF data = <<>> THEN <<>> ELSE yearTicksOf(flatMapDates(data))

\* getComponentYearTicks(componentName) for the result r
getComponentYearTicks(r, componentName) ==
    IF \/ ~Truthy(r)
       \/ ~Truthy(componentsOf(r))
       \/ ~Truthy(Get(componentsOf(r), componentName))
    THEN <<>>
    ELSE LET componentData == Get(componentsOf(r), componentName).v
         IN  yearTicksOf([i \in 1..Len(componentData) |->
                             dateText(componentData[i].date)])

\* <Tabs value={tabValue} onChange={(e, newValue) => setTabValue(newValue)}>
onTabChange ==
    /\ mounted
    /\ resultDisplayed
    /\ edits < MaxEdits
    /\ edits' = edits + 1
    /\ \E newValue \in offeredTabs(result) : tabValue' = newValue
    /\ UNCHANGED << controls, fetchState >>

(***************************************************************************)
(* Handlers of the controls.                                               *)
(***************************************************************************)
includes(arr, x) == \E i \in 1..Len(arr) : arr[i] = x

RECURSIVE filterOut(_, _)
\* prev.filter(v => v !== varName)
filterOut(arr, x) ==
    IF arr = <<>> THEN <<>>
    ELSE IF Head(arr) = x THEN filterOut(Tail(arr), x)
    ELSE <<Head(arr)>> \o filterOut(Tail(arr), x)

\* mutant: the updater appends without looking for the name
toggleAlwaysAppends(prev, varName) == Append(prev, varName)

\* the updater handleExtraVarChange passes to setSelectedExtraVars
toggleExtraVar(prev, varName) ==
    IF includes(prev, varName) THEN filterOut(prev, varName)
    ELSE Append(prev, varName)

\* parseFloat(e.target.value) || fallback
parseOrDefault(text, fallback) ==
    IF TruthyNum(parseFloat(text)) THEN parseFloat(text) ELSE Num(fallback)

Edit ==
    /\ mounted
    /\ edits < MaxEdits
    /\ edits' = edits + 1
    /\ UNCHANGED << fetchState, tabValue >>

handleExtraVarChange ==
    \E varName \in ToggledVars :
        /\ Edit
        /\ selectedExtraVars' = toggleExtraVar(selectedExtraVars, varName)
        /\ UNCHANGED << growth, yearlySeasonality, seasonalityMode,
                        changepointPriorScale, seasonalityPriorScale,
                        regressorPriorScale >>

onChangeGrowth ==
    \E value \in GrowthOptions :
        /\ Edit
        /\ growth' = value
        /\ UNCHANGED << selectedExtraVars, yearlySeasonality, seasonalityMode,
                        changepointPriorScale, seasonalityPriorScale,
                        regressorPriorScale >>

onChangeSeasonalityMode ==
    \E value \in SeasonalityModeOptions :
        /\ Edit
        /\ seasonalityMode' = value
        /\ UNCHANGED << selectedExtraVars, growth, yearlySeasonality,
                        changepointPriorScale, seasonalityPriorScale,
                        regressorPriorScale >>

onChangeChangepointPriorScale ==
    \E text \in TypedTexts :
        /\ Edit
        /\ changepointPriorScale' =
               parseOrDefault(text, DefaultChangepointPriorScale)
        /\ UNCHANGED << selectedExtraVars, growth, yearlySeasonality,
                        seasonalityMode, seasonalityPriorScale,
                        regressorPriorScale >>

onChangeSeasonalityPriorScale ==
    \E text \in TypedTexts :
        /\ Edit
        /\ seasonalityPriorScale' =
               parseOrDefault(text, DefaultSeasonalityPriorScale)
        /\ UNCHANGED << selectedExtraVars, growth, yearlySeasonality,
                        seasonalityMode, changepointPriorScale,
                        regressorPriorScale >>

onChangeRegressorPriorScale ==
    \E text \in TypedTexts :
        /\ Edit
        /\ regressorPriorScale' =
               parseOrDefault(text, DefaultRegressorPriorScale)
        /\ UNCHANGED << selectedExtraVars, growth, yearlySeasonality,
                        seasonalityMode, changepointPriorScale,
                        seasonalityPriorScale >>

onChangeYearlySeasonality ==
    \E checked \in BOOLEAN :
        /\ Edit
        /\ yearlySeasonality' = checked
        /\ UNCHANGED << selectedExtraVars, growth, seasonalityMode,
                        changepointPriorScale, seasonalityPriorScale,
                        regressorPriorScale >>

(***************************************************************************)
(* fetchPrediction, up to its first await.                                 *)
(***************************************************************************)
\* JSON.stringify of a number: NaN is written as null
jsonNumber(n) == IF n.nan THEN Null ELSE n

\* mutant: extra_vars is the whole list, not the checked names
requestBodyUnfiltered ==
    [ extra_vars |-> AVAILABLE_EXTRA_VARS,
      growth |-> growth,
      yearly_seasonality |-> yearlySeasonality,
      weekly_seasonality |-> FALSE,
      daily_seasonality |-> FALSE,
      seasonality_mode |-> seasonalityMode,
      changepoint_prior_scale |-> jsonNumber(changepointPriorScale),
      seasonality_prior_scale |-> jsonNumber(seasonalityPriorScale),
      interval_width |-> jsonNumber(Num(IntervalWidthLiteral)),
      regressor_prior_scale |-> jsonNumber(regressorPriorScale),
      regressor_mode |-> seasonalityMode ]

\* the object fetchPrediction passes to JSON.stringify, as the server
\* parses it back
requestBody ==
    [ extra_vars |-> selectedExtraVars,
      growth |-> growth,
      yearly_seasonality |-> yearlySeasonality,
      weekly_seasonality |-> FALSE,
      daily_seasonality |-> FALSE,
      seasonality_mode |-> seasonalityMode,
      changepoint_prior_scale |-> jsonNumber(changepointPriorScale),
      seasonality_prior_scale |-> jsonNumber(seasonalityPriorScale),
      interval_width |-> jsonNumber(Num(IntervalWidthLiteral)),
      regressor_prior_scale |-> jsonNumber(regressorPriorScale),
      regressor_mode |-> seasonalityMode ]

\* <Button onClick={fetchPrediction} disabled={loading}>
\* mutant: the button is never disabled
startNeverDisabled == FALSE

startDisabled == loading

\* mutant: the previous result is not cleared
beginRequestKeepsResult ==
    /\ loading' = TRUE
    /\ error' = Null
    /\ result' = result

\* setLoading(true); setError(null); setResult(null)
beginRequest ==
    /\ loading' = TRUE
    /\ error' = Null
    /\ result' = Null

fetchPrediction ==
    /\ mounted
    /\ ~startDisabled
    /\ clicks < MaxClicks
    /\ clicks' = clicks + 1
    /\ beginRequest
    /\ request' = [sent |-> TRUE, body |-> requestBody, id |-> clicks + 1]
    /\ requestsSent' = requestsSent + 1
    /\ response' = NoResponse
    /\ pc' = "awaitFetch"
    /\ UNCHANGED << controls, edits, tabValue >>

(***************************************************************************)
(* The HTTP collaborator: what the server, or the network, may answer.     *)
(***************************************************************************)
HttpStatuses == {200, 404, 500}

\* a body that is not JSON (response.json() rejects with a SyntaxError)
Unparsable == [t |-> "unparsable"]

StatusValues == {Str("success"), Str("error")}
MessageValues == {Str(""), Str("insufficient data")}

\* the JSON object with the fields among status, message, data that are given
jsonObject(s, m, d) ==
    LET all == [status |-> s, message |-> m, data |-> d]
        present == {f \in DOMAIN all : all[f] # Undefined}
    IN  Obj([f \in present |-> all[f]])

\* the object with the fields of the record all that are not undefined
objectOf(all) ==
    Obj([f \in {g \in DOMAIN all : all[g] # Undefined} |-> all[f]])

(***************************************************************************)
(* The forecasting pipeline behind the endpoint, as its contract describes *)
(* it: the ForecastResult it assembles for the request it has read.  Dates *)
(* are <<year, month>>; series values are whole numbers; the metrics of    *)
(* cv_metrics are numbers in hundredths.                                   *)
(***************************************************************************)
dateBefore(a, b) == a[1] < b[1] \/ (a[1] = b[1] /\ a[2] < b[2])
nextMonth(d) == IF d[2] = 12 THEN <<d[1] + 1, 1>> ELSE <<d[1], d[2] + 1>>

\* SeriesStore snapshots: the cleaned historical series
HistoryA ==
    << [date |-> <<2023, 11>>, actual |-> 40],
       [date |-> <<2023, 12>>, actual |-> 44],
       [date |-> <<2024, 1>>, actual |-> 47] >>
HistoryB ==
    << [date |-> <<2024, 5>>, actual |-> 0],
       [date |-> <<2024, 6>>, actual |-> 9] >>
Histories == {HistoryA, HistoryB}

\* horizon_periods the pipeline is run with
HorizonPeriods == {0, 2}

RECURSIVE futureDates(_, _)
\* the n dates that follow date last
futureDates(last, n) ==
    IF n = 0 THEN <<>>
    ELSE <<nextMonth(last)>> \o futureDates(nextMonth(last), n - 1)

RECURSIVE sortDates(_)
\* the dates of a set, ascending
sortDates(S) ==
    IF S = {} THEN <<>>
    ELSE LET first == CHOOSE d \in S : \A e \in S \ {d} : dateBefore(d, e)
         IN  <<first>> \o sortDates(S \ {first})

historicalDates(hist) == {hist[i].date : i \in 1..Len(hist)}
horizonDates(hist, hz) ==
    LET f == futureDates(hist[Len(hist)].date, hz)
    IN  {f[i] : i \in 1..Len(f)}

\* ResultAssembler: historical dates and horizon dates, each once, ascending
resultDates(hist, hz) ==
    sortDates(historicalDates(hist) \cup horizonDates(hist, hz))

\* FittedModel.evaluate at the i-th result date: the in-sample fit with a
\* zero-width interval, then a forecast whose interval widens with distance
evaluate(hist, i) ==
    LET n == Len(hist)
    IN  IF i <= n
        THEN [predicted |-> hist[i].actual, lower |-> hist[i].actual,
              upper |-> hist[i].actual]
        ELSE [predicted |-> hist[n].actual + 3 * (i - n),
              lower |-> hist[n].actual + 3 * (i - n) - 2 * (i - n),
              upper |-> hist[n].actual + 3 * (i - n) + 2 * (i - n)]

forecastData(hist, hz) ==
    LET dates == resultDates(hist, hz)
    IN  [i \in 1..Len(dates) |->
            [date |-> dates[i],
             predicted |-> evaluate(hist, i).predicted,
             lower |-> evaluate(hist, i).lower,
             upper |-> evaluate(hist, i).upper]]

\* ComponentDecomposer: one series of {date, value} over the result dates
componentSeries(hist, hz, base) ==
    LET dates == resultDates(hist, hz)
    IN  Arr([i \in 1..Len(dates) |-> [date |-> dates[i], value |-> base + i]])

\* the series of every snapshot and horizon, computed once: of forecast_data,
\* of the trend, of the yearly component, of a regressor's contribution
ForecastDataOf ==
    [hist \in Histories |->
        [hz \in HorizonPeriods |-> Arr(forecastData(hist, hz))]]
TrendOf ==
    [hist \in Histories |->
        [hz \in HorizonPeriods |-> componentSeries(hist, hz, 40)]]
YearlyOf ==
    [hist \in Histories |->
        [hz \in HorizonPeriods |-> componentSeries(hist, hz, 0)]]
RegressorOf ==
    [hist \in Histories |->
        [hz \in HorizonPeriods |-> componentSeries(hist, hz, 1)]]

\* components: trend always, yearly when enabled, extra_regressors with one
\* entry per selected regressor when any is selected
serverComponents(hist, hz, served) ==
    objectOf(
        [ trend |-> TrendOf[hist][hz],
          yearly |-> IF served.yearly_seasonality
                     THEN YearlyOf[hist][hz]
                     ELSE Undefined,
          extra_regressors |->
              IF served.extra_vars = <<>> THEN Undefined
              ELSE Obj([name \in {served.extra_vars[i] :
                                    i \in 1..Len(served.extra_vars)} |->
                           RegressorOf[hist][hz]]) ])

\* CrossValidator: full metrics, then coverage at its two ends, coverage
\* absent, and the partial and absent cv_metrics of too short a history
FullMetrics ==
    Obj([mape |-> Num(12), mae |-> Num(350), rmse |-> Num(410),
         coverage |-> Num(90)])
NoCoverageMetrics ==
    Obj([mape |-> Num(12), mae |-> Num(350), rmse |-> Num(410)])
CvMetricsValues ==
    { FullMetrics,
      NoCoverageMetrics,
      Obj([mape |-> Num(12), mae |-> Num(350), rmse |-> Num(410),
           coverage |-> Num(0)]),
      Obj([mape |-> Num(0), mae |-> Num(0), rmse |-> Num(0),
           coverage |-> Num(100)]),
      Obj([mae |-> Num(350), rmse |-> Num(410)]),
      Obj([mape |-> Num(12), rmse |-> Num(410)]),
      Obj([mape |-> Num(12), mae |-> Num(350)]),
      Undefined }

forecastResult(hist, hz, served, cv) ==
    objectOf(
        [ historical_actual |-> Arr(hist),
          forecast_data |-> ForecastDataOf[hist][hz],
          components |-> serverComponents(hist, hz, served),
          cv_metrics |-> cv ])

\* every result the pipeline may return for the request it has read
AllResults(served) ==
    { forecastResult(hist, hz, served, cv) :
          hist \in Histories, hz \in HorizonPeriods, cv \in CvMetricsValues }

\* data of the bodies of the whole component's specification: a result of
\* the pipeline, and null
DataValues(served) ==
    { forecastResult(HistoryA, 2, served, FullMetrics), Null }

ObjectBodies(served) ==
    { jsonObject(s, m, d) : s \in StatusValues \cup {Undefined},
                            m \in MessageValues \cup {Undefined},
                            d \in DataValues(served) \cup {Undefined} }

\* what response.json() may settle with: a rejection, JSON null, an object
Bodies(served) == {Unparsable, Null} \cup ObjectBodies(served)

\* the success bodies of the result view's specification
ViewBodies(served) ==
    { jsonObject(Str("success"), Undefined, d) : d \in AllResults(served) }

\* messages of the errors the runtime itself throws
NetworkErrorMessage == "Failed to fetch"
SyntaxErrorMessage == "Unexpected token < in JSON at position 0"
TypeErrorMessage == "Cannot read properties of null"

(***************************************************************************)
(* fetchPrediction after its awaits.                                       *)
(***************************************************************************)
\* response.ok
ok(status) == status \in 200..299

\* new Error(x).message for the truthy x the component passes
errorMessage(x) == x.v

\* mutant: the body's message is ignored
notOkThrowsStatusOnly(status, body) ==
    IF body.t = "unparsable" THEN SyntaxErrorMessage
    ELSE "HTTP error! status: " \o ToString(status)

\* the message of what lines 80-81 throw for a non-2xx response whose
\* json() settled with body
notOkThrows(status, body) ==
    IF body.t = "unparsable" THEN SyntaxErrorMessage
    ELSE IF body.t = "null" THEN TypeErrorMessage
    ELSE IF Truthy(Get(body, "message"))
         THEN errorMessage(Get(body, "message"))
         ELSE "HTTP error! status: " \o ToString(status)

\* mutant: any truthy status counts as success
isSuccessAnyStatus(body) ==
    /\ body.t = "object"
    /\ Truthy(Get(body, "status"))

\* whether lines 84-90 reach setResult for a 2xx response whose json()
\* settled with body
isSuccess(body) ==
    /\ body.t = "object"
    /\ Get(body, "status") = Str("success")

\* the message of what lines 84-90 throw otherwise
okThrows(body) ==
    IF body.t = "unparsable" THEN SyntaxErrorMessage
    ELSE IF body.t = "null" THEN TypeErrorMessage
    ELSE IF Truthy(Get(body, "message"))
         THEN errorMessage(Get(body, "message"))
         ELSE "Prediction failed"

\* mutant: the catch block swallows the error
catchSwallows(message) ==
    /\ error' = error
    /\ loading' = FALSE
    /\ pc' = "idle"
    /\ request' = NoRequest
    /\ UNCHANGED << result, requestsSent >>

\* mutant: the catch block sends the request again
catchRetries(message) ==
    /\ error' = Str(message)
    /\ loading' = TRUE
    /\ pc' = "awaitFetch"
    /\ request' = [sent |-> TRUE, body |-> requestBody, id |-> clicks]
    /\ requestsSent' = requestsSent + 1
    /\ UNCHANGED result

\* catch (err) { setError(err.message) } finally { setLoading(false) }
catchFinally(message) ==
    /\ error' = Str(message)
    /\ loading' = FALSE
    /\ pc' = "idle"
    /\ request' = NoRequest
    /\ UNCHANGED << result, requestsSent >>

\* mutant: the success path leaves loading set
storeResultKeepsLoading(body) ==
    /\ result' = Get(body, "data")
    /\ loading' = loading
    /\ pc' = "idle"
    /\ request' = NoRequest
    /\ UNCHANGED << error, requestsSent >>

\* setResult(data.data); finally { setLoading(false) }
storeResult(body) ==
    /\ result' = Get(body, "data")
    /\ loading' = FALSE
    /\ pc' = "idle"
    /\ request' = NoRequest
    /\ UNCHANGED << error, requestsSent >>

\* the server drops the request and never answers it
serverNeverAnswers ==
    /\ pc = "awaitFetch"
    /\ response.kind = "none"
    /\ response' = [response EXCEPT !.kind = "silent"]
    /\ UNCHANGED << controls, edits, tabValue, loading, error, result, pc,
                    request, clicks, requestsSent >>

\* fetch() rejects: the network failed
fetchRejects ==
    /\ pc = "awaitFetch"
    /\ response.kind = "none"
    /\ response' = [response EXCEPT !.kind = "rejected", !.id = request.id]
    /\ catchFinally(NetworkErrorMessage)
    /\ UNCHANGED << controls, edits, tabValue, clicks >>

\* fetch() resolves with a response; line 79 picks which json() is awaited
fetchResolves ==
    \E status \in HttpStatuses :
        /\ pc = "awaitFetch"
        /\ response.kind = "none"
        /\ response' = [kind |-> "response", status |-> status,
                        body |-> Unread, id |-> request.id]
        /\ pc' = IF ok(status) THEN "awaitJson" ELSE "awaitErrorJson"
        /\ UNCHANGED << controls, edits, tabValue, loading, error, result,
                        request, clicks, requestsSent >>

\* line 80 settles: const errorData = await response.json(); throw ...
errorJsonSettles ==
    /\ pc = "awaitErrorJson"
    /\ \E body \in Bodies(request.body) :
        /\ response' = [response EXCEPT !.body = body]
        /\ catchFinally(notOkThrows(response.status, body))
        /\ UNCHANGED << controls, edits, tabValue, clicks >>

\* line 84 settles: const data = await response.json(); ...
jsonSettlesWith(body) ==
    /\ response' = [response EXCEPT !.body = body]
    /\ IF isSuccess(body) THEN storeResult(body)
       ELSE catchFinally(okThrows(body))
    /\ UNCHANGED << controls, edits, tabValue, clicks >>

jsonSettles ==
    /\ pc = "awaitJson"
    /\ \E body \in Bodies(request.body) : jsonSettlesWith(body)

\* the same step, over every result the pipeline may return
viewJsonSettles ==
    /\ pc = "awaitJson"
    /\ \E body \in ViewBodies(request.body) : jsonSettlesWith(body)

Next ==
    \/ handleExtraVarChange
    \/ onChangeGrowth
    \/ onChangeSeasonalityMode
    \/ onChangeChangepointPriorScale
    \/ onChangeSeasonalityPriorScale
    \/ onChangeRegressorPriorScale
    \/ onChangeYearlySeasonality
    \/ onTabChange
    \/ fetchPrediction
    \/ serverNeverAnswers
    \/ fetchRejects
    \/ fetchResolves
    \/ errorJsonSettles
    \/ jsonSettles

Spec == Init /\ [][Next]_vars

\* the result view over every result of the pipeline: the user works the
\* regressor checkboxes, the Yearly Seasonality checkbox, the button and
\* the tabs
ViewNext ==
    \/ handleExtraVarChange
    \/ onChangeYearlySeasonality
    \/ onTabChange
    \/ fetchPrediction
    \/ fetchRejects
    \/ fetchResolves
    \/ errorJsonSettles
    \/ viewJsonSettles

ViewSpec == Init /\ [][ViewNext]_vars

\* the component with an HTTP call that settles: the server answers or the
\* network fails, response.json() settles, and the continuation then runs;
\* the user works the regressor checkboxes, the button and the tabs
LiveNext ==
    \/ handleExtraVarChange
    \/ onTabChange
    \/ fetchPrediction
    \/ fetchRejects
    \/ fetchResolves
    \/ errorJsonSettles
    \/ jsonSettles

LiveSpec ==
    /\ Init
    /\ [][LiveNext]_vars
    /\ WF_vars(fetchRejects \/ fetchResolves)
    /\ WF_vars(errorJsonSettles)
    /\ WF_vars(jsonSettles)

(***************************************************************************)
(* What the controls show, by the request field each one feeds             *)
(* (value= / checked= of the rendered controls).  interval_width has no    *)
(* control.                                                                *)
(***************************************************************************)
\* <Checkbox checked={selectedExtraVars.includes(varName)}>
checked(varName) == includes(selectedExtraVars, varName)

controlValues ==
    [ extra_vars |-> selectedExtraVars,
      growth |-> growth,
      yearly_seasonality |-> yearlySeasonality,
      seasonality_mode |-> seasonalityMode,
      changepoint_prior_scale |-> changepointPriorScale,
      seasonality_prior_scale |-> seasonalityPriorScale,
      regressor_prior_scale |-> regressorPriorScale ]

(***************************************************************************)
(* Helpers of the properties.                                              *)
(***************************************************************************)
\* the fields of the request contract
ContractFields ==
    { "extra_vars", "growth", "yearly_seasonality", "seasonality_mode",
      "changepoint_prior_scale", "seasonality_prior_scale",
      "interval_width", "regressor_prior_scale" }

Elems(seq) == {seq[i] : i \in 1..Len(seq)}
NoDuplicates(seq) == \A i, j \in 1..Len(seq) : seq[i] = seq[j] => i = j

\* a step in which fetch() is called
SendsRequest == requestsSent' # requestsSent

\* the exchange is over and the server answered with this kind of response
Answered == pc = "idle" /\ response.kind = "response"
Is2xx == response.status >= 200 /\ response.status <= 299
BodyIsObject == response.body.t = "object"
BodySaysSuccess ==
    BodyIsObject /\ Get(response.body, "status") = Str("success")

(***************************************************************************)
(* C1 (as stated): in every request sent, each of the eight contract       *)
(* fields is present and carries the value its control holds when Start    *)
(* Prediction is clicked.  Fails: interval_width has no control.           *)
(***************************************************************************)
C1_EveryFieldFromItsControl ==
    [][SendsRequest =>
          \A f \in ContractFields :
              /\ f \in DOMAIN request'.body
              /\ f \in DOMAIN controlValues
              /\ request'.body[f] = controlValues[f]]_vars

(***************************************************************************)
(* C1 (amended): every request sent contains the eight contract fields;    *)
(* the seven that have a control carry the value the control holds when    *)
(* Start Prediction is clicked, extra_vars being exactly the checked       *)
(* regressors, and interval_width is the literal 0.95.                     *)
(***************************************************************************)
C1_BodyCarriesControls ==
    [][SendsRequest =>
          /\ request'.sent
          /\ ContractFields \subseteq DOMAIN request'.body
          /\ \A f \in DOMAIN controlValues :
                 request'.body[f] = controlValues[f]
          /\ Elems(request'.body.extra_vars)
                 = {v \in Elems(AVAILABLE_EXTRA_VARS) : checked(v)}
          /\ request'.body.interval_width = Num(95)]_vars

\* a request on the wire carries a checked regressor and edited selections
C1_Witness ==
    /\ request.sent
    /\ request.body.extra_vars = <<"total_population">>
    /\ request.body.growth = "logistic"
    /\ request.body.changepoint_prior_scale = Num(20)

(***************************************************************************)
(* C2: a result is stored only for a 2xx response whose body has status    *)
(* "success", and it is then the body's data field; after any other        *)
(* outcome result is null.                                                 *)
(***************************************************************************)
C2_ResultOnlyOnSuccess ==
    /\ result # Null =>
           /\ Answered /\ Is2xx /\ BodySaysSuccess
    /\ (Answered /\ Is2xx /\ BodySaysSuccess) =>
           result = Get(response.body, "data")

\* a success response has been stored
C2_Witness ==
    /\ Answered /\ Is2xx /\ BodySaysSuccess
    /\ result = forecastResult(HistoryA, 2, requestBody, FullMetrics)

(***************************************************************************)
(* C3 (as stated): when the server answers with a failure that carries a   *)
(* message string, the stored error is exactly that message.  Fails for    *)
(* the empty message.                                                      *)
(***************************************************************************)
AnsweredFailure == Answered /\ BodyIsObject /\ ~(Is2xx /\ BodySaysSuccess)

C3_ErrorIsTheMessage ==
    (AnsweredFailure /\ Get(response.body, "message").t = "string") =>
        error = Get(response.body, "message")

(***************************************************************************)
(* C3 (amended): when the server answers with a failure whose JSON object  *)
(* carries a non-empty message string, the stored error is exactly that    *)
(* message; when the message is missing or empty it is                     *)
(* "HTTP error! status: <code>" (non-2xx) or "Prediction failed" (2xx).    *)
(***************************************************************************)
C3_ErrorIsTheNonEmptyMessage ==
    AnsweredFailure =>
        LET m == Get(response.body, "message")
        IN  IF m.t = "string" /\ m.v # "" THEN error = m
            ELSE IF Is2xx THEN error = Str("Prediction failed")
            ELSE \/ response.status = 404
                    /\ error = Str("HTTP error! status: 404")
                 \/ response.status = 500
                    /\ error = Str("HTTP error! status: 500")

\* a 500 answer with a message has been shown
C3_Witness ==
    /\ AnsweredFailure
    /\ response.status = 500
    /\ Get(response.body, "status") = Str("error")
    /\ error = Str("insufficient data")

(***************************************************************************)
(* C4: however a request fails (network rejection, non-2xx response, body  *)
(* that is not JSON, 2xx body whose status is not "success"), once it has  *)
(* finished error is non-null and result is null.                          *)
(***************************************************************************)
Failed ==
    /\ pc = "idle"
    /\ \/ response.kind = "rejected"
       \/ /\ response.kind = "response"
          /\ ~(Is2xx /\ BodySaysSuccess)

C4_FailureSetsError == Failed => (error # Null /\ result = Null)

\* a 2xx response whose body is not JSON has finished
C4_Witness ==
    /\ Failed /\ Is2xx
    /\ response.body = Unparsable
    /\ error = Str(SyntaxErrorMessage)

(***************************************************************************)
(* C5: each click of Start Prediction calls fetch() exactly once, and      *)
(* nothing is on the wire once the request has finished.                   *)
(***************************************************************************)
C5_OneRequestPerClick ==
    /\ requestsSent = clicks
    /\ pc = "idle" => ~request.sent

\* a request has failed and nothing was sent again
C5_Witness ==
    /\ Failed
    /\ response.kind = "rejected"
    /\ clicks = 1

(***************************************************************************)
(* C6: while loading is true, result and error are null.                   *)
(***************************************************************************)
C6_NothingShownWhileLoading == loading => (result = Null /\ error = Null)

\* a second request is in progress, after the first one's outcome
C6_Witness == loading /\ clicks = 2 /\ pc = "awaitJson"

(***************************************************************************)
(* C7 (as stated): a request whose server never answers still ends: some   *)
(* step of the component sets loading back to false.  Fails: fetch is      *)
(* called without a timeout or an abort signal.                            *)
(***************************************************************************)
C7_SilentServerStillEnds ==
    (loading /\ response.kind = "silent") => ENABLED (Next /\ ~loading')

(***************************************************************************)
(* C8 (as stated): in every request sent the three prior scales are finite *)
(* numbers greater than 0 and interval_width is strictly between 0 and 1.  *)
(* Fails: a typed negative number is stored and sent.                      *)
(***************************************************************************)
IsNumber(x) == "val" \in DOMAIN x /\ ~x.nan

C8_RequestScalesInRange ==
    request.sent =>
        /\ \A f \in { "changepoint_prior_scale", "seasonality_prior_scale",
                      "regressor_prior_scale" } :
               IsNumber(request.body[f]) /\ request.body[f].val > 0
        /\ IsNumber(request.body.interval_width)
        /\ request.body.interval_width.val > 0
        /\ request.body.interval_width.val < 100

(***************************************************************************)
(* C9: the selected regressor list never holds a name twice and holds only *)
(* names of AVAILABLE_EXTRA_VARS; so does extra_vars of every request.     *)
(***************************************************************************)
C9_SelectionIsASet ==
    /\ NoDuplicates(selectedExtraVars)
    /\ Elems(selectedExtraVars) \subseteq Elems(AVAILABLE_EXTRA_VARS)
    /\ request.sent =>
           /\ NoDuplicates(request.body.extra_vars)
           /\ Elems(request.body.extra_vars)
                  \subseteq Elems(AVAILABLE_EXTRA_VARS)

\* a request went out with two regressors, one of them unchecked since
C9_Witness ==
    /\ request.sent
    /\ Len(request.body.extra_vars) = 2
    /\ Len(selectedExtraVars) = 1

(***************************************************************************)
(* C10: growth is "linear" or "logistic" and seasonality_mode is           *)
(* "additive" or "multiplicative", in the state and in every request.      *)
(***************************************************************************)
C10_EnumeratedValues ==
    /\ growth \in {"linear", "logistic"}
    /\ seasonalityMode \in {"additive", "multiplicative"}
    /\ request.sent =>
           /\ request.body.growth \in {"linear", "logistic"}
           /\ request.body.seasonality_mode \in {"additive", "multiplicative"}

\* a request went out with both drop-downs changed
C10_Witness ==
    /\ request.sent
    /\ request.body.growth = "logistic"
    /\ request.body.seasonality_mode = "multiplicative"

(***************************************************************************)
(* Claims about the result view.                                           *)
(***************************************************************************)
\* a result is on the page and its render did not throw
Shown == resultDisplayed /\ ~viewThrows(result)

\* the exchange ended with a 2xx response saying success and carrying data
AnsweredWithData ==
    /\ Answered /\ Is2xx /\ BodySaysSuccess
    /\ Truthy(Get(response.body, "data"))

\* a step in which the component stores the data of a success response
StoresResult == pc = "awaitJson" /\ pc' = "idle" /\ Truthy(result')

IsAscending(dates) ==
    \A i \in 1..(Len(dates) - 1) : dateBefore(dates[i], dates[i + 1])

(***************************************************************************)
(* C11: the Coverage tile shows "N/A" exactly when cv_metrics.coverage is  *)
(* absent, and for every present coverage in [0,1], 0 included, it shows   *)
(* that value as a percentage.  Fails: a coverage of 0 is shown as "N/A".  *)
(***************************************************************************)
C11_CoverageTileShowsValue ==
    Shown =>
        LET c == Get(cvMetricsOf(result), "coverage")
        IN  IF c = Undefined
            THEN coverageTile(result) = "N/A"
            ELSE coverageTile(result) = toFixed1(times100(c)) \o "%"

(***************************************************************************)
(* C12: a success response whose cv_metrics is absent or partial is still  *)
(* accepted and its forecast is displayed, without the result view         *)
(* failing.  Fails: the metrics panel throws when cv_metrics, mae or rmse  *)
(* is missing.                                                             *)
(***************************************************************************)
C12_PartialMetricsStillDisplayed ==
    AnsweredWithData =>
        /\ result = Get(response.body, "data")
        /\ error = Null
        /\ resultDisplayed
        /\ ~viewThrows(result)

C16_OnlyContractFields ==
    request.sent => DOMAIN request.body \subseteq ContractFields

InFlight == pc # "idle"

C18_OneRequestInFlight ==
    [][/\ (loading => startDisabled) /\ (InFlight => loading)
       /\ SendsRequest => (~InFlight /\ ~request.sent /\ ~loading)
       /\ (InFlight /\ ~InFlight') =>
              /\ response'.id = clicks'
              /\ request.id = clicks]_vars

\* the second request is in flight and the first one has ended
C18_Witness ==
    /\ InFlight
    /\ startDisabled
    /\ request.sent /\ request.id = 2
    /\ response.kind = "response" /\ response.id = 2

(***************************************************************************)
(* C19: at most one of result and error is set, and once a request has     *)
(* finished (loading false after at least one click) exactly one of them   *)
(* is set, also for a 2xx response with status "success" whose data is     *)
(* missing.  Fails: that response, and one whose data is null, leave both  *)
(* unset.                                                                  *)
(***************************************************************************)
C19_ExactlyOneOfResultAndError ==
    /\ ~(~isNullish(result) /\ ~isNullish(error))
    /\ (clicks >= 1 /\ ~loading) => (~isNullish(result) \/ ~isNullish(error))

(***************************************************************************)
(* C20: whenever a result is displayed, the selected tab is one of the     *)
(* tabs offered for that result and a panel is rendered for it; tabValue   *)
(* is never 3 while the displayed result has no extra_regressors.  Fails:  *)
(* tabValue is kept at 3 when the next result has none.                    *)
(***************************************************************************)
C20_SelectedTabIsOffered ==
    resultDisplayed =>
        /\ tabValue \in offeredTabs(result)
        /\ panelRendered(tabValue, result)
        /\ tabValue = 3 =>
               Get(componentsOf(result), "extra_regressors") # Undefined

(***************************************************************************)
(* C21: getYearTicks and getComponentYearTicks return exactly one tick per *)
(* distinct year occurring in the dates, every tick is a date of the data, *)
(* the ticks are in ascending order, and, the dates being ascending as the *)
(* result contract promises, each tick is the earliest date of its year;   *)
(* for empty or missing data they return an empty list.                    *)
(***************************************************************************)
\* the dates of the charted series, and of a component of the result
SeriesDates(series) == {series[i].x : i \in DOMAIN series}

DatesOfChart(data) ==
    UNION {SeriesDates(data[k].data) : k \in DOMAIN data}

DatesOfComponent(r, componentName) ==
    LET c == Get(componentsOf(r), componentName)
    IN  IF c = Undefined THEN {} ELSE {c.v[i].date : i \in 1..Len(c.v)}

\* ticks are the right ticks for a set of dates
OneTickPerYear(ticks, dates) ==
    /\ Len(ticks) = Cardinality({d[1] : d \in dates})
    /\ \A year \in {d[1] : d \in dates} :
           \E i \in 1..Len(ticks) :
               \E d \in dates :
                   /\ d[1] = year
                   /\ ticks[i] = dateText(d)
                   /\ \A e \in dates : e[1] = year => ~dateBefore(e, d)
    /\ \A i, j \in 1..Len(ticks) :
           i < j => \E d, e \in dates :
                        /\ ticks[i] = dateText(d)
                        /\ ticks[j] = dateText(e)
                        /\ dateBefore(d, e)

\* lists of dates in any order, with repetitions
TickDates == {<<2023, 11>>, <<2023, 12>>, <<2024, 1>>}
TickInputs ==
    UNION {[1..n -> TickDates] : n \in 0..MaxTickDates}

\* for dates in any order: one tick per year, a date of the list, ascending
TicksOfAnyList ==
    \A dates \in TickInputs :
        LET ticks == yearTicksOf([i \in 1..Len(dates) |-> dateText(dates[i])])
            given == {dates[i] : i \in 1..Len(dates)}
        IN  /\ Len(ticks) = Cardinality({d[1] : d \in given})
            /\ \A i \in 1..Len(ticks) :
                   \E d \in given : ticks[i] = dateText(d)
            /\ \A i, j \in 1..Len(ticks) :
                   i < j => \E d, e \in given :
                                /\ ticks[i] = dateText(d)
                                /\ ticks[j] = dateText(e)
                                /\ d[1] < e[1]

C21_OneTickPerYear ==
    /\ TicksOfAnyList
    /\ IF resultDisplayed
       THEN /\ OneTickPerYear(
                   getYearTicks(prepareForecastChartData(result)),
                   DatesOfChart(prepareForecastChartData(result)))
            /\ \A name \in {"trend", "yearly"} :
                   OneTickPerYear(getComponentYearTicks(result, name),
                                  DatesOfComponent(result, name))
       ELSE /\ getYearTicks(prepareForecastChartData(result)) = <<>>
            /\ \A name \in {"trend", "yearly"} :
                   getComponentYearTicks(result, name) = <<>>

\* a result over two years is charted, with a tick for each of them, and
\* it has no yearly component
C21_Witness ==
    /\ resultDisplayed
    /\ Len(getYearTicks(prepareForecastChartData(result))) = 2
    /\ Len(getComponentYearTicks(result, "trend")) = 2
    /\ DatesOfComponent(result, "yearly") = {}
    /\ getComponentYearTicks(result, "yearly") = <<>>

(***************************************************************************)
(* C22: the request depends only on the set of selected regressors, not on *)
(* the history of toggles: every toggle sequence that ends with the set of *)
(* regressors of a request that is sent gives the same extra_vars value as *)
(* that request carries.  Fails: extra_vars is in the order of checking.   *)
(***************************************************************************)
\* the toggle sequences the user can make
ToggleSequences == UNION {[1..n -> ToggledVars] : n \in 0..MaxEdits}

RECURSIVE afterToggles(_)
\* the selection after a sequence of toggles of a fresh component
afterToggles(toggles) ==
    IF toggles = <<>> THEN <<>>
    ELSE toggleExtraVar(afterToggles(SubSeq(toggles, 1, Len(toggles) - 1)),
                        toggles[Len(toggles)])

C22_RequestDependsOnlyOnTheSet ==
    request.sent =>
        \A toggles \in ToggleSequences :
            Elems(afterToggles(toggles)) = Elems(request.body.extra_vars)
                => afterToggles(toggles) = request.body.extra_vars

====
